---------------------------- MODULE Spec2Model ----------------------------
(***************************************************************************)
(* lambda-scheduler: the Preparable abstraction (lib/preparable/process.go)*)
(* and the safe file utilities (lib/utils/file_util.go).                   *)
(*                                                                         *)
(* Strings are sequences of tokens: the token "/" is the path separator,   *)
(* every other token is a separator-free piece of text.  Concatenation is  *)
(* \o, so a trailing-separator test and strings.TrimSuffix act on the last *)
(* token exactly as the Go code acts on the last byte.                     *)
(***************************************************************************)
EXTENDS Integers, Sequences, FiniteSets, TLC

VARIABLES
    d,        \* the workload descriptor (Preparable / BinaryPreparable)
    t,        \* a second descriptor, built like d but with SysFolder + "/"
              \* and SourcePath + "/", driven by the same calls as d
    fs,       \* the filesystem d's calls act on
    tfs,      \* the filesystem t's calls act on
    last,     \* what the last call on d did and returned
    tlast,    \* what the last call on t did and returned
    orig,     \* d as it was constructed
    nprep,    \* number of PrepareBin calls made so far
    npassed,  \* number of BinaryPreparable.PrepareBin calls that got past line 158
    prepared, \* a PrepareBin call has returned (binary-bundle: without error)
    file,     \* the TOML registry file: NoFile or a sequence of chunks
    lock,     \* holder of the file mutex of the registry path, or NoProc
    pc,       \* position of every process in SafeWriteTomlFile / SafeReadTomlFile
    wval,     \* the value each writer was called with
    woff,     \* the file offset of each writer's descriptor
    wres,     \* the error each writer returned
    rres,     \* what the reader's decode returned
    rseen,    \* the content the reader's decode saw
    rafter,   \* the writers that had returned when the read began
    lastHolder, \* the writer that held the lock last
    lastTrunc   \* the writer whose OpenFile truncated the file last

vars == <<d, t, fs, tfs, last, tlast, orig, nprep, npassed, prepared,
          file, lock, pc, wval, woff, wres, rres, rseen, rafter,
          lastHolder, lastTrunc>>

prepVars == <<d, t, fs, tfs, last, tlast, orig, nprep, npassed, prepared>>
tomlVars == <<file, lock, pc, wval, woff, wres, rres, rseen, rafter,
              lastHolder, lastTrunc>>

(***************************************************************************)
(* Bounds.                                                                 *)
(***************************************************************************)
MaxPrepare == 2
NumWriters == 2
NumKeys == 2

(***************************************************************************)
(* Strings and paths.                                                      *)
(***************************************************************************)
Sep == "/"
NilErr == "nil"

Str(tok) == <<tok>>

EndsWithSep(s) == s[Len(s)] = Sep

\* strings.TrimSuffix(s, "/"): removes one trailing separator, if any
TrimSuffix(s) ==
    IF Len(s) > 0 /\ s[Len(s)] = Sep THEN SubSeq(s, 1, Len(s) - 1) ELSE s

\* the elements of a path after filepath.Clean: empty and "." elements are
\* dropped, ".." removes the element before it (and is dropped at the root)
RECURSIVE CleanFrom(_, _, _, _)
CleanFrom(s, i, cur, acc) ==
    LET push == IF cur = <<>> \/ cur = <<".">> THEN acc
                ELSE IF cur = <<"..">>
                     THEN (IF acc = <<>> THEN acc ELSE SubSeq(acc, 1, Len(acc) - 1))
                     ELSE Append(acc, cur)
    IN  IF i > Len(s) THEN push
        ELSE IF s[i] = Sep THEN CleanFrom(s, i + 1, <<>>, push)
        ELSE CleanFrom(s, i + 1, Append(cur, s[i]), acc)

Clean(s) == CleanFrom(s, 1, <<>>, <<>>)

\* filepath.Join(a, b) == Clean(a + "/" + b)
Join(a, b) == Clean(a \o <<Sep>> \o b)

\* filepath.Dir of an absolute path: the cleaned path without its last element
Dir(s) == LET c == Clean(s) IN IF c = <<>> THEN c ELSE SubSeq(c, 1, Len(c) - 1)

IsPrefix(a, b) == Len(a) <= Len(b) /\ SubSeq(b, 1, Len(a)) = a

(***************************************************************************)
(* Sequencing: Bind(v, F) is F applied to the value of v, with v evaluated *)
(* once, like a statement "x := v" followed by the rest of the function.   *)
(***************************************************************************)
Bind(v, F(_)) == CHOOSE r \in {F(x) : x \in {v}} : TRUE

(***************************************************************************)
(* Path derivation of the source-build variant (Preparable).               *)
(* Every operator returns the descriptor as the call left it, the value    *)
(* returned, and whether the call panicked (index out of range).           *)
(***************************************************************************)
Ret(p, v) == [p |-> p, ret |-> v, panic |-> FALSE]
Panic(p) == [p |-> p, ret |-> <<>>, panic |-> TRUE]

Preparable_getPath(p) ==
    IF Len(p.SysFolder) = 0 THEN Panic(p)
    ELSE IF EndsWithSep(p.SysFolder)
         THEN Ret([p EXCEPT !.SysFolder = TrimSuffix(p.SysFolder)],
                  TrimSuffix(p.SysFolder) \o <<Sep>> \o p.Name)
         ELSE Ret(p, p.SysFolder \o <<Sep>> \o p.Name)

\* a getBinPath that forgets the binary's own name
Preparable_getBinPath_NoName(p) == Preparable_getPath(p)

Preparable_getBinPath(p) ==
    Bind(Preparable_getPath(p), LAMBDA r :
        IF r.panic THEN r ELSE Ret(r.p, r.ret \o <<Sep>> \o r.p.Name))

Preparable_getPidPath(p) ==
    Bind(Preparable_getBinPath(p), LAMBDA r :
        IF r.panic THEN r ELSE Ret(r.p, r.ret \o <<".pid">>))

Preparable_getOutPath(p) ==
    Bind(Preparable_getBinPath(p), LAMBDA r :
        IF r.panic THEN r ELSE Ret(r.p, r.ret \o <<".out">>))

Preparable_getErrPath(p) ==
    Bind(Preparable_getBinPath(p), LAMBDA r :
        IF r.panic THEN r ELSE Ret(r.p, r.ret \o <<".err">>))

Preparable_Identifier(p) == Ret(p, p.Name)

(***************************************************************************)
(* Path derivation of the binary-bundle variant (BinaryPreparable).        *)
(***************************************************************************)
BinaryPreparable_getPath(p) ==
    IF Len(p.SysFolder) = 0 THEN Panic(p)
    ELSE IF EndsWithSep(p.SysFolder)
         THEN Ret([p EXCEPT !.SysFolder = TrimSuffix(p.SysFolder)],
                  TrimSuffix(p.SysFolder) \o <<Sep>> \o p.Name)
         ELSE Ret(p, p.SysFolder \o <<Sep>> \o p.Name)

BinaryPreparable_getBinPath(p) == Ret(p, p.SourcePath)

BinaryPreparable_getPidPath(p) ==
    Bind(BinaryPreparable_getPath(p), LAMBDA r :
        IF r.panic THEN r ELSE Ret(r.p, r.ret \o <<Sep>> \o r.p.Name \o <<".pid">>))

BinaryPreparable_getOutPath(p) ==
    Bind(BinaryPreparable_getPath(p), LAMBDA r :
        IF r.panic THEN r ELSE Ret(r.p, r.ret \o <<Sep>> \o r.p.Name \o <<".out">>))

BinaryPreparable_getErrPath(p) ==
    Bind(BinaryPreparable_getPath(p), LAMBDA r :
        IF r.panic THEN r ELSE Ret(r.p, r.ret \o <<Sep>> \o r.p.Name \o <<".err">>))

BinaryPreparable_Identifier(p) == Ret(p, p.Name)

(***************************************************************************)
(* The filesystem: a function from cleaned absolute paths (sequences of    *)
(* elements) to nodes.  The root <<>> is always a directory.                *)
(***************************************************************************)
NoFault == [at |-> 0, step |-> "none"]
Hit(fault, i, step) == fault = [at |-> i, step |-> step]

DirNode == [dir |-> TRUE, tag |-> "dir", zipok |-> FALSE, entries |-> <<>>, of |-> <<>>]
ZipNode(b) == [dir |-> FALSE, tag |-> "zip", zipok |-> b.zipok, entries |-> b.entries, of |-> <<>>]
BytesNode(name) == [dir |-> FALSE, tag |-> "bytes", zipok |-> FALSE, entries |-> <<>>, of |-> name]
PartialNode == [dir |-> FALSE, tag |-> "partial", zipok |-> FALSE, entries |-> <<>>, of |-> <<>>]
EmptyNode == [dir |-> FALSE, tag |-> "empty", zipok |-> FALSE, entries |-> <<>>, of |-> <<>>]

IsFileAt(f, c) == c \in DOMAIN f /\ ~f[c].dir
IsDirAt(f, c) == c = <<>> \/ (c \in DOMAIN f /\ f[c].dir)
Prefixes(c) == {SubSeq(c, 1, k) : k \in 1..Len(c)}
Parent(c) == IF c = <<>> THEN c ELSE SubSeq(c, 1, Len(c) - 1)
Put(f, c, node) == [q \in DOMAIN f \cup {c} |-> IF q = c THEN node ELSE f[q]]

\* os.MkdirAll(path, perm): c is the cleaned path, emptyName says that the
\* string handed over was "", envFail that the operating system refused
MkdirAll(f, c, emptyName, envFail) ==
    IF emptyName THEN [fs |-> f, err |-> "ENOENT", made |-> {}]
    ELSE IF envFail THEN [fs |-> f, err |-> "EIO", made |-> {}]
    ELSE IF \E q \in Prefixes(c) : IsFileAt(f, q)
         THEN [fs |-> f, err |-> "ENOTDIR", made |-> {}]
    ELSE [fs |-> [q \in DOMAIN f \cup Prefixes(c) |->
                     IF q \in DOMAIN f THEN f[q] ELSE DirNode],
          err |-> NilErr,
          made |-> Prefixes(c) \ DOMAIN f]

\* os.OpenFile(path, O_WRONLY|O_CREATE|O_TRUNC, perm)
OpenFileTrunc(f, c, envFail) ==
    IF envFail THEN [fs |-> f, err |-> "EIO"]
    ELSE IF c = <<>> \/ IsDirAt(f, c) THEN [fs |-> f, err |-> "EISDIR"]
    ELSE IF ~IsDirAt(f, Parent(c)) THEN [fs |-> f, err |-> "ENOENT"]
    ELSE [fs |-> Put(f, c, EmptyNode), err |-> NilErr]

\* ioutil.WriteFile(path, data, perm): open with truncation, write, close;
\* a failing write leaves the truncated file with part of the data
WriteFile(f, c, node, envFail) ==
    LET o == OpenFileTrunc(f, c, FALSE)
    IN  IF o.err # NilErr THEN o
        ELSE IF envFail THEN [fs |-> Put(o.fs, c, PartialNode), err |-> "EIO"]
        ELSE [fs |-> Put(o.fs, c, node), err |-> NilErr]

(***************************************************************************)
(* utils.Unzip(src, dest).  st carries the filesystem and what the call    *)
(* did so far: touched, the paths it created or wrote; fails, the entries  *)
(* at which a step failed; wrote, the entries that changed the filesystem. *)
(* The result also tells where each entry's name resolves (resolved).      *)
(***************************************************************************)
UnzipSteps == {"open", "mkdir", "mkparent", "create", "copy"}

UzDone(st, err, exited) ==
    [fs |-> st.fs, err |-> err, exited |-> exited, touched |-> st.touched,
     fails |-> st.fails, wrote |-> st.wrote]

\* one entry of the archive (the body of the loop): next says whether the loop
\* goes on to the following entry
UnzipEntry(st, e, i, dest, fault) ==
    Bind(Join(dest, e.name), LAMBDA fpath :
    IF Hit(fault, i, "open")
    THEN [st |-> [st EXCEPT !.fails = @ \cup {i}], err |-> "open",
          exited |-> FALSE, next |-> FALSE]
    ELSE IF e.isDir
    THEN Bind(MkdirAll(st.fs, fpath, FALSE, Hit(fault, i, "mkdir")), LAMBDA m :
         IF m.err # NilErr
         THEN [st |-> [st EXCEPT !.fails = @ \cup {i}], err |-> NilErr,
               exited |-> FALSE, next |-> TRUE]
         ELSE [st |-> [st EXCEPT !.fs = m.fs, !.touched = @ \cup m.made,
                                 !.wrote = @ \cup {i}],
               err |-> NilErr, exited |-> FALSE, next |-> TRUE])
    ELSE Bind(MkdirAll(st.fs, Parent(fpath), Len(fpath) <= 1,
                       Hit(fault, i, "mkparent")), LAMBDA m :
         IF m.err # NilErr
         THEN [st |-> [st EXCEPT !.fails = @ \cup {i}], err |-> m.err,
               exited |-> TRUE, next |-> FALSE]
         ELSE
         Bind([st EXCEPT !.fs = m.fs, !.touched = @ \cup m.made,
                         !.wrote = IF m.made = {} THEN @ ELSE @ \cup {i}],
              LAMBDA s1 :
         Bind(OpenFileTrunc(s1.fs, fpath, Hit(fault, i, "create")), LAMBDA o :
         IF o.err # NilErr
         THEN [st |-> [s1 EXCEPT !.fails = @ \cup {i}], err |-> o.err,
               exited |-> FALSE, next |-> FALSE]
         ELSE IF Hit(fault, i, "copy")
         THEN [st |-> [s1 EXCEPT !.fs = Put(o.fs, fpath, PartialNode),
                                 !.touched = @ \cup {fpath},
                                 !.wrote = @ \cup {i},
                                 !.fails = @ \cup {i}],
               err |-> "copy", exited |-> FALSE, next |-> FALSE]
         ELSE [st |-> [s1 EXCEPT !.fs = Put(o.fs, fpath, BytesNode(e.name)),
                                 !.touched = @ \cup {fpath},
                                 !.wrote = @ \cup {i}],
               err |-> NilErr, exited |-> FALSE, next |-> TRUE]))))

RECURSIVE UnzipFrom(_, _, _, _, _)
UnzipFrom(st, entries, i, dest, fault) ==
    IF i > Len(entries) THEN UzDone(st, NilErr, FALSE)
    ELSE Bind(UnzipEntry(st, entries[i], i, dest, fault), LAMBDA r :
         IF r.next THEN UnzipFrom(r.st, entries, i + 1, dest, fault)
         ELSE UzDone(r.st, r.err, r.exited))

NoUnzip ==
    [called |-> FALSE, dest |-> <<>>, fs |-> <<>>, err |-> NilErr, exited |-> FALSE,
     touched |-> {}, fails |-> {}, wrote |-> {}, opened |-> FALSE,
     resolved |-> {}]

\* what a caller's record keeps of an Unzip call: everything but the filesystem
UzGhost(u) == [u EXCEPT !.fs = <<>>]

Unzip(f, src, dest, fault) ==
    Bind(Clean(src), LAMBDA c :
    Bind(Clean(dest), LAMBDA cd :
    Bind(IsFileAt(f, c) /\ f[c].tag = "zip" /\ f[c].zipok, LAMBDA ok :
    Bind([fs |-> f, touched |-> {}, fails |-> {}, wrote |-> {}], LAMBDA st :
    Bind(IF ok THEN UnzipFrom(st, f[c].entries, 1, dest, fault)
         ELSE UzDone(st, "zip", FALSE), LAMBDA u :
    [called |-> TRUE, dest |-> cd, fs |-> u.fs, err |-> u.err,
     exited |-> u.exited, touched |-> u.touched, fails |-> u.fails,
     wrote |-> u.wrote, opened |-> ok,
     resolved |-> IF ok THEN {Join(dest, f[c].entries[i].name) :
                                 i \in 1..Len(f[c].entries)}
                  ELSE {}])))))

(***************************************************************************)
(* Results of the calls on a descriptor.                                   *)
(***************************************************************************)
NoProcSpec ==
    [Name |-> <<>>, Cmd |-> <<>>, Args |-> <<>>, Envs |-> <<>>,
     WorkingDir |-> <<>>, Path |-> <<>>, Pidfile |-> <<>>, Outfile |-> <<>>,
     Errfile |-> <<>>, KeepAlive |-> FALSE, Pid |-> 0]

\* a call that returned nothing yet: the descriptor p and the filesystem f as
\* they are, no value, no error
Res(p, f) ==
    [p |-> p, fs |-> f, ret |-> <<>>, err |-> NilErr, panic |-> FALSE,
     exited |-> FALSE, spec |-> NoProcSpec, failed |-> FALSE, passed |-> FALSE,
     uz |-> NoUnzip, toolOk |-> TRUE]

PathEntry == <<"PATH=/home/silas/.deno/bin:/usr/bin">>
\* a task-root entry that lacks the runtime directory
TaskRoot_NoPath(runtimePath) == <<"LAMBDA_TASK_ROOT=">>

TaskRoot(runtimePath) == <<"LAMBDA_TASK_ROOT=">> \o runtimePath

(***************************************************************************)
(* Preparable.PrepareBin: toolOk says whether the go toolchain succeeds.   *)
(* A successful build leaves the binary at binPath.                        *)
(***************************************************************************)
GoBuild(f, binPath, toolOk) ==
    Bind(Clean(binPath), LAMBDA c :
    Bind(MkdirAll(f, Parent(c), FALSE, FALSE), LAMBDA m :
    IF toolOk /\ m.err = NilErr /\ ~IsDirAt(m.fs, c)
    THEN [fs |-> Put(m.fs, c, BytesNode(<<"go build">>)), err |-> NilErr]
    ELSE [fs |-> f, err |-> "exit status 1"]))

Preparable_PrepareBin(p, f, toolOk) ==
    IF Len(p.SourcePath) = 0 THEN [Res(p, f) EXCEPT !.panic = TRUE]
    ELSE
    Bind(IF EndsWithSep(p.SourcePath)
         THEN [p EXCEPT !.SourcePath = TrimSuffix(p.SourcePath)]
         ELSE p, LAMBDA q :
    Bind(Preparable_getBinPath(q), LAMBDA b :
    IF b.panic THEN [Res(b.p, f) EXCEPT !.panic = TRUE]
    ELSE
    Bind([b.p EXCEPT !.Cmd = b.ret], LAMBDA p1 :
    IF p1.Language # "go"
    THEN [Res(p1, f) EXCEPT !.err = "exec: no command", !.failed = TRUE,
                            !.toolOk = FALSE]
    ELSE
    Bind(GoBuild(f, b.ret, toolOk), LAMBDA g :
    [Res(p1, g.fs) EXCEPT !.ret = <<"output">>, !.err = g.err,
                          !.failed = (g.err # NilErr), !.toolOk = toolOk]))))

(***************************************************************************)
(* BinaryPreparable.PrepareBin: fault names the step the operating system  *)
(* refuses, if any.                                                        *)
(***************************************************************************)
BinaryPreparable_PrepareBin(p, f, fault) ==
    Bind(BinaryPreparable_getOutPath(p), LAMBDA r1 :
    IF r1.panic THEN [Res(r1.p, f) EXCEPT !.panic = TRUE]
    ELSE
    Bind(MkdirAll(f, Dir(r1.ret), FALSE, Hit(fault, 0, "mkdir1")), LAMBDA m1 :
    IF m1.err # NilErr
    THEN [Res(r1.p, m1.fs) EXCEPT !.err = m1.err, !.failed = TRUE]
    ELSE
    Bind(BinaryPreparable_getPath(r1.p), LAMBDA r2 :
    IF r2.panic THEN [Res(r2.p, m1.fs) EXCEPT !.panic = TRUE]
    ELSE
    Bind(r2.ret \o <<Sep, "runtime">>, LAMBDA runtimePath :
    Bind(MkdirAll(m1.fs, Clean(runtimePath), FALSE, Hit(fault, 0, "mkdir2")),
         LAMBDA m2 :
    IF m2.err # NilErr
    THEN [Res(r2.p, m2.fs) EXCEPT !.err = m2.err, !.failed = TRUE]
    ELSE
    Bind([r2.p EXCEPT !.Envs = @ \o <<TaskRoot(runtimePath), PathEntry>>],
         LAMBDA p3 :
    IF ~p3.BZipFile.b64ok
    THEN [Res(p3, m2.fs) EXCEPT !.err = "illegal base64 data",
                                !.failed = TRUE, !.passed = TRUE]
    ELSE
    Bind(BinaryPreparable_getPath(p3), LAMBDA r3 :
    IF r3.panic THEN [Res(r3.p, m2.fs) EXCEPT !.panic = TRUE, !.passed = TRUE]
    ELSE
    Bind(r3.ret \o <<Sep, "function.zip">>, LAMBDA zipPath :
    Bind(WriteFile(m2.fs, Clean(zipPath), ZipNode(p3.BZipFile),
                   Hit(fault, 0, "writezip")), LAMBDA w :
    IF w.err # NilErr
    THEN [Res(r3.p, w.fs) EXCEPT !.err = w.err, !.failed = TRUE, !.passed = TRUE]
    ELSE
    Bind(Unzip(w.fs, zipPath, runtimePath, fault), LAMBDA u :
    IF u.exited
    THEN [Res(r3.p, u.fs) EXCEPT !.exited = TRUE, !.failed = TRUE,
                                 !.passed = TRUE, !.uz = UzGhost(u)]
    ELSE
    Bind(BinaryPreparable_getPath(r3.p), LAMBDA r4 :
    IF r4.panic
    THEN [Res(r4.p, u.fs) EXCEPT !.panic = TRUE, !.passed = TRUE,
                                 !.failed = (u.fails # {} \/ u.err # NilErr),
                                 !.uz = UzGhost(u)]
    ELSE [Res([r4.p EXCEPT !.Cmd = r4.ret \o <<Sep, "runtime", Sep, "bootstrap">>],
              u.fs)
            EXCEPT !.err = u.err, !.passed = TRUE,
                   !.failed = (u.fails # {} \/ u.err # NilErr),
                   !.uz = UzGhost(u)])))))))))))

(***************************************************************************)
(* The process specification assembled by SetupProc and Start.  The fields *)
(* of the composite literal are evaluated in order, so the path getters    *)
(* run one after the other on the same descriptor.                         *)
(***************************************************************************)
Preparable_SetupProc(p, f) ==
    Bind(Preparable_getPath(p), LAMBDA r1 :
    IF r1.panic THEN [Res(r1.p, f) EXCEPT !.panic = TRUE]
    ELSE
    Bind(Preparable_getPidPath(r1.p), LAMBDA r2 :
    IF r2.panic THEN [Res(r2.p, f) EXCEPT !.panic = TRUE]
    ELSE
    Bind(Preparable_getOutPath(r2.p), LAMBDA r3 :
    IF r3.panic THEN [Res(r3.p, f) EXCEPT !.panic = TRUE]
    ELSE
    Bind(Preparable_getErrPath(r3.p), LAMBDA r4 :
    IF r4.panic THEN [Res(r4.p, f) EXCEPT !.panic = TRUE]
    ELSE [Res(r4.p, f) EXCEPT !.spec =
            [NoProcSpec EXCEPT !.Name = p.Name, !.Cmd = p.Cmd, !.Args = p.Args,
                               !.Path = r1.ret, !.Pidfile = r2.ret,
                               !.Outfile = r3.ret, !.Errfile = r4.ret,
                               !.KeepAlive = p.KeepAlive]]))))

\* startErr is what the lifecycle container's proc.Start() returns
Preparable_Start(p, f, startErr) ==
    Bind(Preparable_getPath(p), LAMBDA r1 :
    IF r1.panic THEN [Res(r1.p, f) EXCEPT !.panic = TRUE]
    ELSE
    Bind(Preparable_getPidPath(r1.p), LAMBDA r2 :
    IF r2.panic THEN [Res(r2.p, f) EXCEPT !.panic = TRUE]
    ELSE
    Bind(Preparable_getOutPath(r2.p), LAMBDA r3 :
    IF r3.panic THEN [Res(r3.p, f) EXCEPT !.panic = TRUE]
    ELSE
    Bind(Preparable_getErrPath(r3.p), LAMBDA r4 :
    IF r4.panic THEN [Res(r4.p, f) EXCEPT !.panic = TRUE]
    ELSE [Res(r4.p, f) EXCEPT !.err = startErr, !.spec =
            [NoProcSpec EXCEPT !.Name = p.Name, !.Cmd = p.Cmd, !.Args = p.Args,
                               !.Path = r1.ret, !.Pidfile = r2.ret,
                               !.Outfile = r3.ret, !.Errfile = r4.ret,
                               !.KeepAlive = p.KeepAlive]]))))

BinaryPreparable_SetupProc(p, f) ==
    Bind(BinaryPreparable_getPath(p), LAMBDA r0 :
    IF r0.panic THEN [Res(r0.p, f) EXCEPT !.panic = TRUE]
    ELSE
    Bind(BinaryPreparable_getPath(r0.p), LAMBDA r1 :
    IF r1.panic THEN [Res(r1.p, f) EXCEPT !.panic = TRUE]
    ELSE
    Bind(BinaryPreparable_getPidPath(r1.p), LAMBDA r2 :
    IF r2.panic THEN [Res(r2.p, f) EXCEPT !.panic = TRUE]
    ELSE
    Bind(BinaryPreparable_getOutPath(r2.p), LAMBDA r3 :
    IF r3.panic THEN [Res(r3.p, f) EXCEPT !.panic = TRUE]
    ELSE
    Bind(BinaryPreparable_getErrPath(r3.p), LAMBDA r4 :
    IF r4.panic THEN [Res(r4.p, f) EXCEPT !.panic = TRUE]
    ELSE [Res(r4.p, f) EXCEPT !.spec =
            [NoProcSpec EXCEPT !.Name = p.Name, !.Cmd = p.Cmd, !.Args = p.Args,
                               !.Envs = p.Envs, !.WorkingDir = r0.ret,
                               !.Path = r1.ret, !.Pidfile = r2.ret,
                               !.Outfile = r3.ret, !.Errfile = r4.ret,
                               !.KeepAlive = p.KeepAlive, !.Pid = -1]])))))

BinaryPreparable_Start(p, f, startErr) ==
    Bind(BinaryPreparable_getPath(p), LAMBDA r0 :
    IF r0.panic THEN [Res(r0.p, f) EXCEPT !.panic = TRUE]
    ELSE
    Bind(BinaryPreparable_getPath(r0.p), LAMBDA r1 :
    IF r1.panic THEN [Res(r1.p, f) EXCEPT !.panic = TRUE]
    ELSE
    Bind(BinaryPreparable_getPidPath(r1.p), LAMBDA r2 :
    IF r2.panic THEN [Res(r2.p, f) EXCEPT !.panic = TRUE]
    ELSE
    Bind(BinaryPreparable_getOutPath(r2.p), LAMBDA r3 :
    IF r3.panic THEN [Res(r3.p, f) EXCEPT !.panic = TRUE]
    ELSE
    Bind(BinaryPreparable_getErrPath(r3.p), LAMBDA r4 :
    IF r4.panic THEN [Res(r4.p, f) EXCEPT !.panic = TRUE]
    ELSE [Res(r4.p, f) EXCEPT !.err = startErr, !.spec =
            [NoProcSpec EXCEPT !.Name = p.Name, !.Cmd = p.Cmd, !.Args = p.Args,
                               !.Envs = p.Envs, !.WorkingDir = r0.ret,
                               !.Path = r1.ret, !.Pidfile = r2.ret,
                               !.Outfile = r3.ret, !.Errfile = r4.ret,
                               !.KeepAlive = p.KeepAlive]])))))

(***************************************************************************)
(* The descriptors the supervisor may construct.                           *)
(***************************************************************************)
Names == {<<"n">>}
SysFolders == {<<Sep>>, <<Sep, "a">>, <<Sep, "a", Sep>>, <<Sep, "a", Sep, Sep>>}
SourcePaths == {<<>>, <<Sep, "s">>, <<Sep, "s", Sep>>}
\* launch parameters: workingDir, keepAlive, args, envs
Launch(wd, ka, args, envs) ==
    [WorkingDir |-> wd, KeepAlive |-> ka, Args |-> args, Envs |-> envs]
Launches ==
    { Launch(<<>>, FALSE, <<>>, <<>>),
      Launch(<<Sep, "w">>, TRUE, << <<"x">> >>, << <<"E=1">> >>),
      Launch(<<Sep, "w">>, FALSE, <<>>, << <<"E=1">>, <<"F=2">> >>) }
Languages == {"go", "other"}

Entry(name, isDir) == [name |-> name, isDir |-> isDir]
Archives ==
    { << Entry(<<"bootstrap">>, FALSE) >>,
      << Entry(<<"lib", Sep>>, TRUE), Entry(<<"lib", Sep, "x">>, FALSE) >>,
      << Entry(<<"d", Sep>>, TRUE), Entry(<<"bootstrap">>, FALSE) >>,
      << Entry(<<"..", Sep, "..", Sep, "etc">>, FALSE) >>,
      << Entry(<<"x">>, FALSE), Entry(<<"x", Sep, "y">>, FALSE) >> }
BadBase64 == [b64ok |-> FALSE, zipok |-> FALSE, entries |-> <<>>]
BadZip == [b64ok |-> TRUE, zipok |-> FALSE, entries |-> <<>>]
Bundles ==
    {[b64ok |-> TRUE, zipok |-> TRUE, entries |-> a] : a \in Archives}
        \cup {BadBase64, BadZip}

Descriptor(kind, name, src, bundle, sys, lang, l) ==
    [kind |-> kind, Name |-> name, SourcePath |-> src, Cmd |-> <<>>,
     BZipFile |-> bundle, SysFolder |-> sys, WorkingDir |-> l.WorkingDir,
     Language |-> lang, KeepAlive |-> l.KeepAlive, Args |-> l.Args,
     Envs |-> l.Envs]

Descriptors ==
    {Descriptor("source", n, sp, BadBase64, sf, lg, l) :
        n \in Names, sp \in SourcePaths, sf \in SysFolders,
        lg \in Languages, l \in Launches}
    \cup
    {Descriptor("binary", n, <<Sep, "s">>, b, sf, "go", l) :
        n \in Names, b \in Bundles, sf \in SysFolders, l \in Launches}

\* the same descriptor built with a trailing separator added to sysFolder and,
\* for the source-build variant, to sourcePath
Twin(p) ==
    [p EXCEPT !.SysFolder = @ \o <<Sep>>,
              !.SourcePath = IF p.kind = "source" THEN @ \o <<Sep>> ELSE @]

Faults(p) ==
    {NoFault}
        \cup {[at |-> 0, step |-> s] : s \in {"mkdir1", "mkdir2", "writezip"}}
        \cup {[at |-> i, step |-> s] : i \in 1..Len(p.BZipFile.entries),
                                      s \in UnzipSteps}

(***************************************************************************)
(* Calls on the descriptor: each runs on d and, with the same inputs, on t.*)
(***************************************************************************)
Outcome(op, r, before) ==
    [op |-> op, ret |-> r.ret, err |-> r.err, panic |-> r.panic,
     exited |-> r.exited, spec |-> r.spec, failed |-> r.failed,
     passed |-> r.passed, uz |-> r.uz, toolOk |-> r.toolOk,
     cmdBefore |-> before.Cmd]

Lift(r, f) == [Res(r.p, f) EXCEPT !.ret = r.ret, !.panic = r.panic]

Dead(l) == l.panic \/ l.exited

Apply(op, r, rt) ==
    /\ d' = r.p
    /\ fs' = r.fs
    /\ last' = Outcome(op, r, d)
    /\ IF Dead(tlast)
       THEN UNCHANGED <<t, tfs, tlast>>
       ELSE /\ t' = rt.p
            /\ tfs' = rt.fs
            /\ tlast' = Outcome(op, rt, t)
    /\ UNCHANGED <<orig, tomlVars>>

\* the call on t, which is made only while t's process lives
OnTwin(r) == IF Dead(tlast) THEN Res(t, tfs) ELSE r

IsSource(p) == p.kind = "source"

DoGetPath(p) ==
    IF IsSource(p) THEN Preparable_getPath(p) ELSE BinaryPreparable_getPath(p)
DoGetBinPath(p) ==
    IF IsSource(p) THEN Preparable_getBinPath(p) ELSE BinaryPreparable_getBinPath(p)
DoGetPidPath(p) ==
    IF IsSource(p) THEN Preparable_getPidPath(p) ELSE BinaryPreparable_getPidPath(p)
DoGetOutPath(p) ==
    IF IsSource(p) THEN Preparable_getOutPath(p) ELSE BinaryPreparable_getOutPath(p)
DoGetErrPath(p) ==
    IF IsSource(p) THEN Preparable_getErrPath(p) ELSE BinaryPreparable_getErrPath(p)
DoIdentifier(p) ==
    IF IsSource(p) THEN Preparable_Identifier(p) ELSE BinaryPreparable_Identifier(p)
DoSetupProc(p, f) ==
    IF IsSource(p) THEN Preparable_SetupProc(p, f) ELSE BinaryPreparable_SetupProc(p, f)
DoStart(p, f, startErr) ==
    IF IsSource(p) THEN Preparable_Start(p, f, startErr)
    ELSE BinaryPreparable_Start(p, f, startErr)
DoPrepareBin(p, f, toolOk, fault) ==
    IF IsSource(p) THEN Preparable_PrepareBin(p, f, toolOk)
    ELSE BinaryPreparable_PrepareBin(p, f, fault)

getPath ==
    /\ ~Dead(last)
    /\ \E r \in {Lift(DoGetPath(d), fs)}, rt \in {OnTwin(Lift(DoGetPath(t), tfs))} :
          Apply("getPath", r, rt)
    /\ UNCHANGED <<nprep, npassed, prepared>>

getBinPath ==
    /\ ~Dead(last)
    /\ \E r \in {Lift(DoGetBinPath(d), fs)}, rt \in {OnTwin(Lift(DoGetBinPath(t), tfs))} :
          Apply("getBinPath", r, rt)
    /\ UNCHANGED <<nprep, npassed, prepared>>

getPidPath ==
    /\ ~Dead(last)
    /\ \E r \in {Lift(DoGetPidPath(d), fs)}, rt \in {OnTwin(Lift(DoGetPidPath(t), tfs))} :
          Apply("getPidPath", r, rt)
    /\ UNCHANGED <<nprep, npassed, prepared>>

getOutPath ==
    /\ ~Dead(last)
    /\ \E r \in {Lift(DoGetOutPath(d), fs)}, rt \in {OnTwin(Lift(DoGetOutPath(t), tfs))} :
          Apply("getOutPath", r, rt)
    /\ UNCHANGED <<nprep, npassed, prepared>>

getErrPath ==
    /\ ~Dead(last)
    /\ \E r \in {Lift(DoGetErrPath(d), fs)}, rt \in {OnTwin(Lift(DoGetErrPath(t), tfs))} :
          Apply("getErrPath", r, rt)
    /\ UNCHANGED <<nprep, npassed, prepared>>

Identifier ==
    /\ ~Dead(last)
    /\ \E r \in {Lift(DoIdentifier(d), fs)}, rt \in {OnTwin(Lift(DoIdentifier(t), tfs))} :
          Apply("Identifier", r, rt)
    /\ UNCHANGED <<nprep, npassed, prepared>>

SetupProc ==
    /\ ~Dead(last)
    /\ \E r \in {DoSetupProc(d, fs)}, rt \in {OnTwin(DoSetupProc(t, tfs))} :
          Apply("SetupProc", r, rt)
    /\ UNCHANGED <<nprep, npassed, prepared>>

Start ==
    /\ ~Dead(last)
    /\ \E startErr \in {NilErr, "start failed"} :
       \E r \in {DoStart(d, fs, startErr)},
          rt \in {OnTwin(DoStart(t, tfs, startErr))} :
          Apply("Start", r, rt)
    /\ UNCHANGED <<nprep, npassed, prepared>>

PrepareBin ==
    /\ ~Dead(last)
    /\ nprep < MaxPrepare
    /\ \E toolOk \in (IF IsSource(d) THEN BOOLEAN ELSE {TRUE}) :
       \E fault \in (IF IsSource(d) THEN {NoFault} ELSE Faults(d)) :
       \E r \in {DoPrepareBin(d, fs, toolOk, fault)},
          rt \in {OnTwin(DoPrepareBin(t, tfs, toolOk, fault))} :
          /\ Apply("PrepareBin", r, rt)
          /\ npassed' = IF r.passed THEN npassed + 1 ELSE npassed
          /\ prepared' = (prepared \/ (~r.panic /\ ~r.exited
                                         /\ (IsSource(d) \/ r.err = NilErr)))
    /\ nprep' = nprep + 1

NoCall(p) == Outcome("none", Res(p, <<>>), p)

(***************************************************************************)
(* The TOML registry file and the processes that read and write it.        *)
(* A value is a table from keys to integers; the encoder writes one line   *)
(* per key, flushed to the file chunk by chunk.                             *)
(***************************************************************************)
NoProc == 0
Writers == 1..NumWriters
Reader == NumWriters + 1
Procs == Writers \cup {Reader}
Keys == 1..NumKeys

\* the values writer w may be called with: key 1 carries the writer's marker
Values(w) == {v \in [Keys -> {0, w}] : v[1] = w}
ZeroValue == [k \in Keys |-> 0]

Torn == <<-1, 0>>     \* a line cut short by a failed write
Hole == <<-2, 0>>     \* bytes never written, below another descriptor's offset

\* an encoder that writes the values under the keys in reverse order
Encode_Swapped(v) == [k \in 1..NumKeys |-> <<k, v[NumKeys + 1 - k]>>]

\* toml.Encoder.Encode: one line "key = value" per key, in key order
Encode(v) == [k \in 1..NumKeys |-> <<k, v[k]>>]

\* toml.Decode into the value `into`: a torn line, a hole or a key defined twice
\* is an error; a key the document lacks keeps what `into` holds
Decode(data, into) ==
    IF \E i \in 1..Len(data) : data[i][1] <= 0
    THEN [err |-> "toml: parse error", val |-> into]
    ELSE IF \E i, j \in 1..Len(data) : i # j /\ data[i][1] = data[j][1]
    THEN [err |-> "toml: key already defined", val |-> into]
    ELSE [err |-> NilErr,
          val |-> [k \in Keys |->
                     IF \E i \in 1..Len(data) : data[i][1] = k
                     THEN data[CHOOSE i \in 1..Len(data) : data[i][1] = k][2]
                     ELSE into[k]]]

\* toml.DecodeFile(filename, v)
DecodeFile(f, into) ==
    IF ~f.exists THEN [err |-> "ENOENT", val |-> into] ELSE Decode(f.data, into)

\* write(2) of one chunk at offset off of a file opened without O_APPEND
WriteAt(data, off, chunk) ==
    IF off < Len(data) THEN [data EXCEPT ![off + 1] = chunk]
    ELSE data \o [i \in 1..(off - Len(data)) |-> Hole] \o <<chunk>>

NoFile == [exists |-> FALSE, data |-> <<>>]
NoRead == [err |-> NilErr, val |-> ZeroValue, holder |-> NoProc, trunc |-> NoProc]

\* utils.MakeFileMutex(filename).Lock(): blocks until no process holds the lock
FileMutexLock(p) ==
    /\ lock = NoProc
    /\ lock' = p

\* FileMutex.Unlock()
FileMutexUnlock(p) == lock' = NoProc

\* SafeWriteTomlFile(v, filename) is called by writer w
W_Call(w) ==
    /\ pc[w] = "idle"
    /\ \E v \in Values(w) : wval' = [wval EXCEPT ![w] = v]
    /\ pc' = [pc EXCEPT ![w] = "lock"]
    /\ UNCHANGED <<file, lock, woff, wres, rres, rseen, rafter, lastHolder,
                   lastTrunc, prepVars>>

\* a writer that goes on without waiting for the lock
W_Lock_NoWait(w) ==
    /\ pc[w] = "lock"
    /\ lock' = w
    /\ lastHolder' = w
    /\ pc' = [pc EXCEPT ![w] = "open"]
    /\ UNCHANGED <<file, wval, woff, wres, rres, rseen, rafter, lastTrunc,
                   prepVars>>

\* fileLock.Lock()
W_Lock(w) ==
    /\ pc[w] = "lock"
    /\ FileMutexLock(w)
    /\ lastHolder' = w
    /\ pc' = [pc EXCEPT ![w] = "open"]
    /\ UNCHANGED <<file, wval, woff, wres, rres, rseen, rafter, lastTrunc,
                   prepVars>>

\* os.OpenFile(filename, O_WRONLY|O_CREATE|O_TRUNC, 0777), which may fail
W_Open(w) ==
    /\ pc[w] = "open"
    /\ \/ /\ file' = [exists |-> TRUE, data |-> <<>>]
          /\ woff' = [woff EXCEPT ![w] = 0]
          /\ lastTrunc' = w
          /\ pc' = [pc EXCEPT ![w] = "encode"]
          /\ UNCHANGED wres
       \/ /\ wres' = [wres EXCEPT ![w] = "open failed"]
          /\ pc' = [pc EXCEPT ![w] = "unlock"]
          /\ UNCHANGED <<file, woff, lastTrunc>>
    /\ UNCHANGED <<lock, wval, rres, rseen, rafter, lastHolder, prepVars>>

\* encoder.Encode(v): the next chunk reaches the file, or the encoder fails
\* (a value it cannot encode, a failed write) with or without a torn line
W_Encode(w) ==
    /\ pc[w] = "encode"
    /\ \/ /\ file' = [file EXCEPT !.exists = TRUE,
                                  !.data = WriteAt(@, woff[w], Encode(wval[w])[woff[w] + 1])]
          /\ woff' = [woff EXCEPT ![w] = @ + 1]
          /\ IF woff[w] + 1 = NumKeys
             THEN /\ wres' = [wres EXCEPT ![w] = NilErr]
                  /\ pc' = [pc EXCEPT ![w] = "unlock"]
             ELSE UNCHANGED <<wres, pc>>
       \/ /\ \/ file' = file
             \/ file' = [file EXCEPT !.exists = TRUE,
                                     !.data = WriteAt(@, woff[w], Torn)]
          /\ wres' = [wres EXCEPT ![w] = "encode failed"]
          /\ pc' = [pc EXCEPT ![w] = "unlock"]
          /\ UNCHANGED woff
    /\ UNCHANGED <<lock, wval, rres, rseen, rafter, lastHolder, lastTrunc,
                   prepVars>>

\* the deferred f.Close() and fileLock.Unlock(), then the return
W_Unlock(w) ==
    /\ pc[w] = "unlock"
    /\ FileMutexUnlock(w)
    /\ pc' = [pc EXCEPT ![w] = "done"]
    /\ UNCHANGED <<file, wval, woff, wres, rres, rseen, rafter, lastHolder,
                   lastTrunc, prepVars>>

\* SafeReadTomlFile(filename, v) is called
R_Call ==
    /\ pc[Reader] \in {"idle", "done"}
    /\ rafter' = {w \in Writers : pc[w] = "done"}
    /\ pc' = [pc EXCEPT ![Reader] = "lock"]
    /\ UNCHANGED <<file, lock, wval, woff, wres, rres, rseen, lastHolder,
                   lastTrunc, prepVars>>

\* fileLock.Lock()
R_Lock ==
    /\ pc[Reader] = "lock"
    /\ FileMutexLock(Reader)
    /\ pc' = [pc EXCEPT ![Reader] = "decode"]
    /\ UNCHANGED <<file, wval, woff, wres, rres, rseen, rafter, lastHolder,
                   lastTrunc, prepVars>>

\* toml.DecodeFile(filename, v) into a fresh value
R_Decode ==
    /\ pc[Reader] = "decode"
    /\ \E r \in {DecodeFile(file, ZeroValue)} :
          rres' = [err |-> r.err, val |-> r.val, holder |-> lastHolder,
                   trunc |-> lastTrunc]
    /\ rseen' = file
    /\ pc' = [pc EXCEPT ![Reader] = "unlock"]
    /\ UNCHANGED <<file, lock, wval, woff, wres, rafter, lastHolder, lastTrunc,
                   prepVars>>

\* the deferred fileLock.Unlock(), then the return
R_Unlock ==
    /\ pc[Reader] = "unlock"
    /\ FileMutexUnlock(Reader)
    /\ pc' = [pc EXCEPT ![Reader] = "done"]
    /\ UNCHANGED <<file, wval, woff, wres, rres, rseen, rafter, lastHolder,
                   lastTrunc, prepVars>>

TomlIdle ==
    /\ file = NoFile
    /\ lock = NoProc
    /\ pc = [p \in Procs |-> "idle"]
    /\ wval = [w \in Writers |-> ZeroValue]
    /\ woff = [w \in Writers |-> 0]
    /\ wres = [w \in Writers |-> NilErr]
    /\ rres = NoRead
    /\ rseen = NoFile
    /\ rafter = {}
    /\ lastHolder = NoProc
    /\ lastTrunc = NoProc

Init ==
    /\ d \in Descriptors
    /\ t = Twin(d)
    /\ orig = d
    /\ fs = <<>>
    /\ tfs = <<>>
    /\ last = NoCall(d)
    /\ tlast = NoCall(t)
    /\ nprep = 0
    /\ npassed = 0
    /\ prepared = FALSE
    /\ TomlIdle

Next ==
    \/ getPath
    \/ getBinPath
    \/ getPidPath
    \/ getOutPath
    \/ getErrPath
    \/ Identifier
    \/ SetupProc
    \/ Start
    \/ PrepareBin

Spec == Init /\ [][Next]_vars

(***************************************************************************)
(* The registry file alone: the writers and the reader, with one           *)
(* descriptor that nothing is called on.                                   *)
(***************************************************************************)
InitToml ==
    /\ d = Descriptor("source", <<"n">>, <<Sep, "s">>, BadBase64, <<Sep, "a">>,
                      "go", Launch(<<>>, FALSE, <<>>, <<>>))
    /\ t = Twin(d)
    /\ orig = d
    /\ fs = <<>>
    /\ tfs = <<>>
    /\ last = NoCall(d)
    /\ tlast = NoCall(t)
    /\ nprep = 0
    /\ npassed = 0
    /\ prepared = FALSE
    /\ TomlIdle

NextToml ==
    \/ \E w \in Writers : W_Call(w)
    \/ \E w \in Writers : W_Lock(w)
    \/ \E w \in Writers : W_Open(w)
    \/ \E w \in Writers : W_Encode(w)
    \/ \E w \in Writers : W_Unlock(w)
    \/ R_Call
    \/ R_Lock
    \/ R_Decode
    \/ R_Unlock

SpecToml == InitToml /\ [][NextToml]_vars


(***************************************************************************)
(* Properties of the registry file (SpecToml).                             *)
(***************************************************************************)
\* the read has decoded the file
ReadDone == pc[Reader] \in {"unlock", "done"}

\* the read saw writer w's value in full and decoded it
InFull(w) ==
    /\ rseen = [exists |-> TRUE, data |-> Encode(wval[w])]
    /\ rres.err = NilErr
    /\ rres.val = wval[w]

\* the last write that truncated the file returned without error
LastTruncOk == rres.trunc # NoProc /\ wres[rres.trunc] = NilErr

C3_LastWriteVisible ==
    (ReadDone /\ rres.holder # NoProc /\ rres.holder \in rafter
              /\ wres[rres.holder] = NilErr)
        => (rres.err = NilErr /\ rres.val = wval[rres.holder])

C3_Witness ==
    /\ ReadDone
    /\ rafter = Writers
    /\ rres.holder # NoProc
    /\ \A w \in Writers : wres[w] = NilErr
    /\ rres.val = wval[rres.holder]
    /\ \E k \in Keys : rres.val[k] = 0

(***************************************************************************)
(* Properties of the descriptors and of Unzip (Spec).                      *)
(***************************************************************************)
IsBinary == d.kind = "binary"
Returned(l) == ~l.panic /\ ~l.exited
GaveSpec(l) == l.op \in {"Start", "SetupProc"} /\ Returned(l)

\* C2: Unzip writes nothing outside dest, and an archive with an entry that
\* resolves outside dest is rejected with an error.
C2_UnzipStaysInDest ==
    last.uz.called =>
        /\ \A q \in last.uz.touched : IsPrefix(last.uz.dest, q)
        /\ (\E q \in last.uz.resolved : ~IsPrefix(last.uz.dest, q))
              => last.uz.err # NilErr

\* C4: the descriptor built with sysFolder S + "/" (and sourcePath + "/") yields
\* the same workload directory, pid, out and err paths and the same resolved
\* command as the one built with S.
C4_TrailingSeparatorIgnored ==
    /\ last.panic = tlast.panic
    /\ last.op \in {"getPath", "getPidPath", "getOutPath", "getErrPath"}
          => last.ret = tlast.ret
    /\ last.spec.Path = tlast.spec.Path
    /\ last.spec.Pidfile = tlast.spec.Pidfile
    /\ last.spec.Outfile = tlast.spec.Outfile
    /\ last.spec.Errfile = tlast.spec.Errfile
    /\ last.op = "PrepareBin" => d.Cmd = t.Cmd

\* C5: each of the pid, out and err getters returns the same path on every
\* call.
C5_PathsStable ==
    [][\A g \in {"getPidPath", "getOutPath", "getErrPath"} :
          (last.op = g /\ last'.op = g)
              => (~last'.panic /\ last'.ret = last.ret)]_vars

\* C6: the process specification of Start and SetupProc carries the
\* descriptor's WorkingDir, Envs, Args and KeepAlive.
C6_LaunchParametersCarried ==
    GaveSpec(last) =>
        /\ last.spec.WorkingDir = d.WorkingDir
        /\ last.spec.Envs = d.Envs
        /\ last.spec.Args = d.Args
        /\ last.spec.KeepAlive = d.KeepAlive

\* the command the claim names, as a cleaned path under the sysFolder given at
\* construction
ExpectedCmd ==
    Clean(orig.SysFolder) \o
        (IF IsBinary THEN <<orig.Name, <<"runtime">>, <<"bootstrap">> >>
         ELSE <<orig.Name, orig.Name>>)

\* C7: PrepareBin resolves the command: source-build, sysFolder/name/name
\* whether or not the toolchain fails, and a failing toolchain gives an error;
\* binary-bundle, sysFolder/name/runtime/bootstrap after a PrepareBin without
\* error; Start and SetupProc called afterwards carry that command.
C7_CommandResolved ==
    /\ (last.op = "PrepareBin" /\ Returned(last) /\ ~IsBinary)
          => /\ d.Cmd = d.SysFolder \o <<Sep>> \o d.Name \o <<Sep>> \o d.Name
             /\ Clean(d.Cmd) = ExpectedCmd
             /\ ~last.toolOk => last.err # NilErr
    /\ (last.op = "PrepareBin" /\ Returned(last) /\ IsBinary /\ last.err = NilErr)
          => /\ d.Cmd = d.SysFolder \o <<Sep>> \o d.Name
                           \o <<Sep, "runtime", Sep, "bootstrap">>
             /\ Clean(d.Cmd) = ExpectedCmd
    /\ (prepared /\ GaveSpec(last))
          => /\ last.spec.Cmd = d.Cmd
             /\ Clean(last.spec.Cmd) = ExpectedCmd

C7_Witness ==
    /\ ~IsBinary
    /\ prepared
    /\ last.op = "SetupProc"
    /\ Returned(last)
    /\ ~IsFileAt(fs, ExpectedCmd)
    /\ Clean(last.spec.Cmd) = ExpectedCmd

\* C8: a failing step of the binary-bundle PrepareBin (directory creation,
\* base64, writing function.zip, extraction) makes the call return an error and
\* leave Cmd as it was.
C8_FailureLeavesCmd ==
    (IsBinary /\ last.op = "PrepareBin" /\ Returned(last) /\ last.failed)
        => (last.err # NilErr /\ d.Cmd = last.cmdBefore)

\* C9: when a step fails at an entry, Unzip writes no later entry and returns
\* an error to its caller.
C9_UnzipAbortsOnFailure ==
    (last.uz.called /\ last.uz.fails # {})
        => /\ ~last.uz.exited
           /\ last.uz.err # NilErr
           /\ \A i \in last.uz.fails, j \in last.uz.wrote : j <= i

\* the injected task-root entry of the workload's runtime directory
IsTaskRoot(e) ==
    /\ Len(e) > 1
    /\ e[1] = "LAMBDA_TASK_ROOT="
    /\ Clean(Tail(e)) = Clean(orig.SysFolder) \o <<orig.Name, <<"runtime">> >>

\* C10, as stated: a PrepareBin that returns an error adds no entry, one that
\* returns without error leaves the original Envs plus the two injected
\* entries, each once; Start and SetupProc hand over those Envs.
C10_EnvsInjectedOnce ==
    [][/\ (IsBinary /\ last'.op = "PrepareBin" /\ Returned(last'))
             => IF last'.err # NilErr
                THEN d'.Envs = d.Envs
                ELSE /\ Len(d'.Envs) = Len(orig.Envs) + 2
                     /\ SubSeq(d'.Envs, 1, Len(orig.Envs)) = orig.Envs
                     /\ IsTaskRoot(d'.Envs[Len(orig.Envs) + 1])
                     /\ d'.Envs[Len(orig.Envs) + 2] = PathEntry
       /\ (IsBinary /\ GaveSpec(last')) => last'.spec.Envs = d'.Envs]_vars

\* C10, amended: the Envs are the original ones followed by one pair of
\* injected entries per PrepareBin call that got past the two directory
\* creations, whether or not that call then failed; Start and SetupProc hand
\* over those Envs.
C10_EnvsInjectedPerCall ==
    IsBinary =>
        /\ Len(d.Envs) = Len(orig.Envs) + 2 * npassed
        /\ SubSeq(d.Envs, 1, Len(orig.Envs)) = orig.Envs
        /\ \A i \in 1..npassed :
              /\ IsTaskRoot(d.Envs[Len(orig.Envs) + 2 * i - 1])
              /\ d.Envs[Len(orig.Envs) + 2 * i] = PathEntry
        /\ GaveSpec(last) => last.spec.Envs = d.Envs

C10_Witness ==
    /\ IsBinary
    /\ npassed = 2
    /\ ~prepared
    /\ GaveSpec(last)
    /\ Len(last.spec.Envs) = Len(orig.Envs) + 4

=============================================================================
